---- MODULE Spec2Model ----
(***************************************************************************)
(* Model of src/app.py: a Flask application with two routes ("/" and       *)
(* "/health"), two error handlers (404 and 500), configuration read from   *)
(* the environment at import time, and the __main__ entry that parses PORT *)
(* and starts the server.                                                  *)
(*                                                                         *)
(* A process starts with an environment (SECRET_KEY, FLASK_ENV, PORT),     *)
(* runs the module-level configuration (Configure), then the __main__      *)
(* block (Main), and from then on answers requests (HandleRequest).        *)
(* Strings that the code parses (PORT) are sequences of characters; the    *)
(* strings it only compares (FLASK_ENV, paths, methods) are TLA+ strings.  *)
(* A response body is a set of <<field, value>> pairs, so that "exactly    *)
(* this JSON object, no other fields" is set equality.                     *)
(***************************************************************************)
EXTENDS Integers, Sequences, FiniteSets, TLC

VARIABLES env, phase, config, runArgs, req, calls, raised, resp, seen

vars == <<env, phase, config, runArgs, req, calls, raised, resp, seen>>

(***************************************************************************)
(* Bounds and input sets                                                   *)
(***************************************************************************)
\* longest PORT string enumerated by StartupSpec
MaxPortLen == 4

\* characters a PORT string is built from: two digits, a letter, a sign, a blank
PortChars == {"8", "0", "a", "-", " "}

RECURSIVE SeqsUpTo(_, _)
SeqsUpTo(S, n) ==
    IF n = 0 THEN {<<>>}
    ELSE LET shorter == SeqsUpTo(S, n - 1)
         IN  shorter \cup {Append(s, c) : s \in {t \in shorter : Len(t) = n - 1}, c \in S}

PortStrings == SeqsUpTo(PortChars, MaxPortLen)

\* the PORT strings of the request-serving specification
PortSamples == { <<"8", "0", "8", "0">>, <<"a", "b", "c">>, <<>>, <<"-", "8">> }

FlaskEnvStrings == {"development", "production", "Development", ""}

SecretStrings == {"", "s3cret"}

\* stand-ins for the 24 random bytes of os.urandom(24)
RandomKeys == {"urandom-A", "urandom-B"}

Methods == {"GET", "HEAD", "OPTIONS", "POST"}

Paths == {"/", "/health", "/health/", "/nope"}

(***************************************************************************)
(* The environment: os.environ.get                                         *)
(***************************************************************************)
Absent(empty) == [set |-> FALSE, val |-> empty]

Present(v) == [set |-> TRUE, val |-> v]

Environments(ports) ==
    [ SECRET_KEY : {Absent("")} \cup {Present(s) : s \in SecretStrings},
      FLASK_ENV  : {Absent("")} \cup {Present(s) : s \in FlaskEnvStrings},
      PORT       : {Absent(<<>>)} \cup {Present(p) : p \in ports} ]

(***************************************************************************)
(* Module-level configuration, lines 22-26                                 *)
(***************************************************************************)
\* a mutation: os.environ.get('SECRET_KEY', os.urandom(24)), which keeps ""
SecretKeyKeepEmpty(e, r) ==
    IF e.SECRET_KEY.set
    THEN [type |-> "str", val |-> e.SECRET_KEY.val]
    ELSE [type |-> "bytes", val |-> r]

\* os.environ.get('SECRET_KEY') or os.urandom(24): None and "" are both falsy
SecretKeyOf(e, r) ==
    IF e.SECRET_KEY.set /\ e.SECRET_KEY.val # ""
    THEN [type |-> "str", val |-> e.SECRET_KEY.val]
    ELSE [type |-> "bytes", val |-> r]

\* a mutation: a case-insensitive / "anything but production" test
DebugOfLoose(e) == e.FLASK_ENV.set /\ e.FLASK_ENV.val \in {"development", "Development"}

\* os.environ.get('FLASK_ENV') == 'development'
DebugOf(e) == e.FLASK_ENV.set /\ e.FLASK_ENV.val = "development"

(***************************************************************************)
(* int(): Python's parse of a decimal string                               *)
(***************************************************************************)
Digits == {"0", "1", "2", "3", "4", "5", "6", "7", "8", "9"}

DigitVal(c) ==
    CASE c = "0" -> 0 [] c = "1" -> 1 [] c = "2" -> 2 [] c = "3" -> 3
      [] c = "4" -> 4 [] c = "5" -> 5 [] c = "6" -> 6 [] c = "7" -> 7
      [] c = "8" -> 8 [] c = "9" -> 9

RECURSIVE LStrip(_)
LStrip(s) == IF s # <<>> /\ Head(s) = " " THEN LStrip(Tail(s)) ELSE s

RECURSIVE RStrip(_)
RStrip(s) ==
    IF s # <<>> /\ s[Len(s)] = " " THEN RStrip(SubSeq(s, 1, Len(s) - 1)) ELSE s

RECURSIVE Decimal(_)
Decimal(ds) ==
    IF ds = <<>> THEN 0
    ELSE 10 * Decimal(SubSeq(ds, 1, Len(ds) - 1)) + DigitVal(ds[Len(ds)])

\* int(s) for a str: blanks stripped, an optional sign, then one or more digits;
\* anything else raises ValueError (ok = FALSE)
PyInt(s) ==
    LET t      == RStrip(LStrip(s))
        signed == t # <<>> /\ Head(t) \in {"+", "-"}
        ds     == IF signed THEN Tail(t) ELSE t
        valid  == ds # <<>> /\ \A i \in 1..Len(ds) : ds[i] \in Digits
    IN  IF ~valid THEN [ok |-> FALSE, val |-> 0]
        ELSE [ok |-> TRUE,
              val |-> IF signed /\ Head(t) = "-" THEN 0 - Decimal(ds) ELSE Decimal(ds)]

\* a mutation: another default port
PortOfDefault8000(e) ==
    IF e.PORT.set THEN PyInt(e.PORT.val) ELSE [ok |-> TRUE, val |-> 8000]

\* a mutation: a guarded parse that falls back to the default
PortOfFallback(e) ==
    IF e.PORT.set /\ PyInt(e.PORT.val).ok THEN PyInt(e.PORT.val)
    ELSE [ok |-> TRUE, val |-> 5000]

\* int(os.environ.get("PORT", 5000))
PortOf(e) ==
    IF e.PORT.set THEN PyInt(e.PORT.val) ELSE [ok |-> TRUE, val |-> 5000]

\* the ports a socket can be bound to; bind() raises OverflowError outside
BindablePorts == 0..65535

(***************************************************************************)
(* Bodies                                                                  *)
(***************************************************************************)
\* what render_template("index.html") returns when it succeeds
MainPage == { <<"html", "index.html">> }

HealthJson == { <<"status", "healthy">>, <<"message", "Pose Duration Tracker is running">> }

ErrorJson == { <<"error", "Internal server error">> }

\* the framework's own page for an HTTP error without a registered handler
DefaultPage(code) ==
    { <<"html", IF code = 405 THEN "405 Method Not Allowed"
                ELSE IF code = 404 THEN "404 Not Found"
                ELSE "500 Internal Server Error">> }

\* the interactive debugger's page: it shows the traceback
DebuggerPage == { <<"html", "debugger">>, <<"traceback", "stack trace">> }

NoBody == {}

(***************************************************************************)
(* The handlers, lines 29-51.  ok: whether render_template succeeds.       *)
(***************************************************************************)
Returned(status, body) == [raised |-> FALSE, status |-> status, body |-> body]

Raised == [raised |-> TRUE, status |-> 0, body |-> NoBody]

render_template(ok, status) == IF ok THEN Returned(status, MainPage) ELSE Raised

\* a mutation: the page under another status
indexMoved(ok) == render_template(ok, 302)

index(ok) == render_template(ok, 200)

\* a mutation: another message
healthReworded == Returned(200, { <<"status", "healthy">>, <<"message", "ok">> })

health == Returned(200, HealthJson)

\* a mutation: the status forgotten
not_foundAs200(ok) == render_template(ok, 200)

not_found(ok) == render_template(ok, 404)

\* a mutation: the error text leaked into the payload
server_errorLeaky ==
    Returned(500, ErrorJson \cup { <<"traceback", "stack trace">> })

server_error == Returned(500, ErrorJson)

(***************************************************************************)
(* Registration and dispatch: @app.route and @app.errorhandler             *)
(***************************************************************************)
\* @app.route("/") and @app.route("/health"): the rule map
Routes == {"/", "/health"}

\* a route registered without methods= accepts GET, and with it HEAD and OPTIONS
RouteMethods == {"GET", "HEAD", "OPTIONS"}

\* a mutation: the 404 handler not registered
ErrorHandlerCodesOnly500 == {500}

\* @app.errorhandler(404) and @app.errorhandler(500)
ErrorHandlerCodes == {404, 500}

View(path, ok) == IF path = "/" THEN index(ok) ELSE health

ViewName(path) == IF path = "/" THEN "index" ELSE "health"

Response(status, body) == [status |-> status, body |-> body]

\* An exception that left a handler.  With the debug flag set the application
\* re-raises it and the server_error handler is not used: the server started
\* with debug=True answers with the debugger's page.  Otherwise the handler
\* registered for 500 produces the response.
OnException(called, failed, debug, useDebugger) ==
    IF debug
    THEN [calls |-> called, raised |-> failed,
          resp |-> Response(500, IF useDebugger THEN DebuggerPage ELSE DefaultPage(500))]
    ELSE IF 500 \in ErrorHandlerCodes
    THEN [calls |-> Append(called, "server_error"), raised |-> failed,
          resp |-> Response(server_error.status, server_error.body)]
    ELSE [calls |-> called, raised |-> failed, resp |-> Response(500, DefaultPage(500))]

\* An HTTP error raised by routing: 404 for a path without a rule, 405 for a
\* method the rule does not accept.
OnHttpError(code, ok, debug, useDebugger) ==
    IF code = 404 /\ 404 \in ErrorHandlerCodes
    THEN LET out == not_found(ok)
         IN  IF out.raised
             THEN OnException(<<"not_found">>, "not_found", debug, useDebugger)
             ELSE [calls |-> <<"not_found">>, raised |-> "none",
                   resp |-> Response(out.status, out.body)]
    ELSE [calls |-> <<>>, raised |-> "none", resp |-> Response(code, DefaultPage(code))]

\* One request through the application, up to the response object.
Dispatch(method, path, ok, debug, useDebugger) ==
    IF path \notin Routes THEN OnHttpError(404, ok, debug, useDebugger)
    ELSE IF method \notin RouteMethods THEN OnHttpError(405, ok, debug, useDebugger)
    ELSE IF method = "OPTIONS"
    THEN [calls |-> <<>>, raised |-> "none", resp |-> Response(200, NoBody)]
    ELSE LET out == View(path, ok)
         IN  IF out.raised
             THEN OnException(<<ViewName(path)>>, ViewName(path), debug, useDebugger)
             ELSE [calls |-> <<ViewName(path)>>, raised |-> "none",
                   resp |-> Response(out.status, out.body)]

\* What goes on the wire: the answer to a HEAD request carries no body.
Serve(method, path, ok, debug, useDebugger) ==
    LET d == Dispatch(method, path, ok, debug, useDebugger)
    IN  IF method = "HEAD"
        THEN [d EXCEPT !.resp = Response(d.resp.status, NoBody)]
        ELSE d

(***************************************************************************)
(* The process                                                             *)
(***************************************************************************)
NoRequest == [method |-> "none", path |-> "none", ok |-> TRUE]

NotRun == [host |-> "none", port |-> 0, debug |-> FALSE]

\* the state after app = Flask(__name__), line 20
InitWith(ports) ==
    /\ env \in Environments(ports)
    /\ phase = "imported"
    /\ config = [SECRET_KEY |-> [type |-> "none", val |-> ""], DEBUG |-> FALSE]
    /\ runArgs = NotRun
    /\ req = NoRequest
    /\ calls = <<>>
    /\ raised = "none"
    /\ resp = <<>>
    /\ seen = {}

Init == InitWith(PortSamples)

StartupInit == InitWith(PortStrings)

\* lines 22-26
Configure ==
    /\ phase = "imported"
    /\ \E r \in RandomKeys :
         config' = [SECRET_KEY |-> SecretKeyOf(env, r), DEBUG |-> DebugOf(env)]
    /\ phase' = "configured"
    /\ UNCHANGED <<env, runArgs, req, calls, raised, resp, seen>>

\* lines 54-61; app.run(debug=...) also stores its argument in the configuration
Main ==
    /\ phase = "configured"
    /\ LET port       == PortOf(env)
           debug_mode == DebugOf(env)
       IN  \/ /\ ~port.ok
              /\ phase' = "aborted"
              /\ UNCHANGED <<config, runArgs>>
           \/ /\ port.ok
              /\ port.val \notin BindablePorts
              /\ phase' = "aborted"
              /\ config' = [config EXCEPT !.DEBUG = debug_mode]
              /\ UNCHANGED runArgs
           \/ /\ port.ok
              /\ port.val \in BindablePorts
              /\ phase' = "serving"
              /\ config' = [config EXCEPT !.DEBUG = debug_mode]
              /\ runArgs' = [host |-> "0.0.0.0", port |-> port.val, debug |-> debug_mode]
    /\ UNCHANGED <<env, req, calls, raised, resp, seen>>

\* a mutation: a handler that switches the debug flag off
HandleRequestWriting ==
    /\ phase = "serving"
    /\ \E m \in Methods, p \in Paths, ok \in BOOLEAN :
         LET s == Serve(m, p, ok, config.DEBUG, runArgs.debug)
         IN  /\ req' = [method |-> m, path |-> p, ok |-> ok]
             /\ calls' = s.calls
             /\ raised' = s.raised
             /\ resp' = <<s.resp>>
             /\ seen' = seen \cup {s.resp.status}
    /\ config' = [config EXCEPT !.DEBUG = FALSE]
    /\ UNCHANGED <<env, phase, runArgs>>

\* one request, from its arrival to its response
HandleRequest ==
    /\ phase = "serving"
    /\ \E m \in Methods, p \in Paths, ok \in BOOLEAN :
         LET s == Serve(m, p, ok, config.DEBUG, runArgs.debug)
         IN  /\ req' = [method |-> m, path |-> p, ok |-> ok]
             /\ calls' = s.calls
             /\ raised' = s.raised
             /\ resp' = <<s.resp>>
             /\ seen' = seen \cup {s.resp.status}
    /\ UNCHANGED <<env, phase, config, runArgs>>

Next == Configure \/ Main \/ HandleRequest

Spec == Init /\ [][Next]_vars

StartupNext == Configure \/ Main

StartupSpec == StartupInit /\ [][StartupNext]_vars

TypeOK ==
    /\ phase \in {"imported", "configured", "serving", "aborted"}
    /\ config.DEBUG \in BOOLEAN
    /\ Len(resp) <= 1
    /\ seen \subseteq {200, 404, 405, 500}

(***************************************************************************)
(* Properties                                                              *)
(***************************************************************************)
Answered == req.method # "none"

Unmatched == Answered /\ req.path \notin Routes

FourShapes ==
    { Response(200, MainPage), Response(200, HealthJson),
      Response(404, MainPage), Response(500, ErrorJson) }

C2_Health ==
    [][ (phase = "serving" /\ req'.method = "GET" /\ req'.path = "/health") =>
           /\ resp' = <<Response(200, HealthJson)>>
           /\ calls' = <<"health">>
           /\ raised' = "none"
           /\ <<env, phase, config, runArgs>>' = <<env, phase, config, runArgs>> ]_vars

C2_Witness ==
    /\ req.method = "GET" /\ req.path = "/health"
    /\ resp = <<Response(200, HealthJson)>>
    /\ {404, 500} \subseteq seen

\* C3 as stated: an exception in a handler is answered 500 with exactly the
\* error object, whatever the debug flag.
C3_Original ==
    (raised # "none") => resp = <<Response(500, ErrorJson)>>

\* C3 (amended): when a handler raises, that handler ran once and one response
\* with status 500 is sent.  With the debug flag off, server_error runs once
\* after it and the body is exactly the error object (no body for HEAD).  With
\* the debug flag on, server_error is not called and the body is the
\* debugger's page, which carries the traceback.
C3_ServerError ==
    (raised # "none") =>
        /\ Len(resp) = 1
        /\ resp[1].status = 500
        /\ raised \in {"index", "not_found"}
        /\ Cardinality({i \in 1..Len(calls) : calls[i] = raised}) = 1
        /\ ~config.DEBUG =>
             /\ calls = <<raised, "server_error">>
             /\ resp[1].body = IF req.method = "HEAD" THEN NoBody ELSE ErrorJson
        /\ config.DEBUG =>
             /\ calls = <<raised>>
             /\ resp[1].body = IF req.method = "HEAD" THEN NoBody ELSE DebuggerPage

C3_Witness ==
    /\ raised = "not_found"
    /\ ~config.DEBUG
    /\ req.method = "GET"
    /\ resp = <<Response(500, ErrorJson)>>

\* C4: a GET / whose template renders is answered 200 with the main page by
\* index alone, whatever was answered before; and every answer is the one the
\* request and the environment the process started with determine.
C4_Index ==
    /\ (req.method = "GET" /\ req.path = "/" /\ req.ok) =>
          /\ resp = <<Response(200, MainPage)>>
          /\ calls = <<"index">>
    /\ Answered =>
          resp = <<Serve(req.method, req.path, req.ok, DebugOf(env), DebugOf(env)).resp>>

C4_Witness ==
    /\ req = [method |-> "GET", path |-> "/", ok |-> TRUE]
    /\ resp = <<Response(200, MainPage)>>
    /\ {404, 405, 500} \subseteq seen

C6_Debug ==
    (phase # "imported") =>
        /\ config.DEBUG <=> (env.FLASK_ENV = [set |-> TRUE, val |-> "development"])
        /\ (phase = "serving") => (runArgs.debug = config.DEBUG)

C6_Witness ==
    /\ phase = "serving"
    /\ env.FLASK_ENV = [set |-> TRUE, val |-> "development"]
    /\ config.DEBUG
    /\ runArgs.debug
    /\ Answered

C8_Abort ==
    (env.PORT.set /\ (~PyInt(env.PORT.val).ok \/ env.PORT.val \in {<<"a", "b", "c">>, <<>>})) =>
        /\ phase \in {"imported", "configured", "aborted"}
        /\ runArgs = NotRun
        /\ ~Answered
        /\ resp = <<>>

C8_Witness ==
    /\ phase = "aborted"
    /\ env.PORT = [set |-> TRUE, val |-> <<"a", "b", "c">>]
    /\ runArgs = NotRun

\* C9: once the server is up, no step changes the secret key, the debug flag
\* or the port (nor host and debug mode of the server).
C9_ConfigFrozen ==
    [][ (phase = "serving") => (config' = config /\ runArgs' = runArgs /\ env' = env) ]_vars

C9_Witness ==
    /\ phase = "serving"
    /\ Answered
    /\ config.DEBUG
    /\ Cardinality(seen) >= 3

\* C10 as stated: the secret key is SECRET_KEY whenever the variable is set,
\* whatever string it holds, and random exactly when it is unset.
C10_Original ==
    (phase # "imported") =>
        /\ env.SECRET_KEY.set =>
              config.SECRET_KEY = [type |-> "str", val |-> env.SECRET_KEY.val]
        /\ (config.SECRET_KEY.type = "bytes") <=> ~env.SECRET_KEY.set

\* C10 (amended): the secret key is SECRET_KEY whenever the variable is set to
\* a non-empty string, and random bytes exactly when it is unset or empty.
C10_SecretKey ==
    (phase # "imported") =>
        /\ (env.SECRET_KEY.set /\ env.SECRET_KEY.val # "") =>
              config.SECRET_KEY = [type |-> "str", val |-> env.SECRET_KEY.val]
        /\ (config.SECRET_KEY.type = "bytes")
              <=> (~env.SECRET_KEY.set \/ env.SECRET_KEY.val = "")
        /\ (config.SECRET_KEY.type = "bytes") => config.SECRET_KEY.val \in RandomKeys

C10_Witness ==
    /\ phase # "imported"
    /\ env.SECRET_KEY = [set |-> TRUE, val |-> ""]
    /\ config.SECRET_KEY.type = "bytes"

====
